---- MODULE Spec2Model ----
(***************************************************************************)
(* Model of the two news scrapers of everasoto/ed_scrap:                   *)
(*   src/scraper.py      the El Deber pipeline ("ed")                      *)
(*   src/scraper_anf.py  the Agencia de Noticias Fides pipeline ("anf")    *)
(* Each script is one sequential run: load the stored URLs, crawl the      *)
(* listing pages, extract every candidate article, normalize the batch,    *)
(* insert it into the store inside one transaction.                        *)
(***************************************************************************)
EXTENDS Integers, Sequences, FiniteSets, TLC

VARIABLES
  source,         \* which script runs: "ed" or "anf"
  unchanged,      \* TRUE when the remote site answers every request as it did before
  remote_list,    \* what the site served for each listing page so far
  remote_art,     \* what the site served for each article page so far
  db,             \* the persistent store: table name -> set of committed rows
  run,            \* number of the current run of the script
  pc,             \* position of the script
  existing_urls,  \* result of load_existing_urls for this run
  sec, page,      \* position of the listing loop
  all_articles,   \* ed: initial_news / anf: articles
  seen_urls,      \* anf: seen_urls
  candidates,     \* ed: df["link"] after drop_duplicates / anf: articles
  pos,            \* index of the extraction loop and of the insert loop
  full_articles,  \* ed: full_data / anf: full_articles
  rows,           \* the normalized frame handed to the insert loop
  pending,        \* rows written by the open transaction, not yet committed
  visited,        \* history: the listing pages fetched in this run
  hits,           \* history: on how many fetched listing pages each URL appeared
  fetched,        \* history: the article URLs fetched in this run
  outcomes,       \* history: the result of every insert statement of this run
  snap,           \* history: the store at the end of the first run
  ended1,         \* history: how the first run ended
  probe           \* input and output of the pure functions checked on their own

vars == <<source, unchanged, remote_list, remote_art, db, run, pc, existing_urls,
          sec, page, all_articles, seen_urls, candidates, pos, full_articles, rows,
          pending, visited, hits, fetched, outcomes, snap, ended1, probe>>

(***************************************************************************)
(* Bounds of the model and values shared by both scripts                   *)
(***************************************************************************)
MaxPages == 3        \* scraper.py: listing pages crawled per section (num_pages=6)
MaxUrl == 2          \* number of distinct article links the remote site can list
MaxSegs == 3         \* path segments of a URL given to extract_section

Null == [null |-> TRUE]   \* None / NaT in place of a timestamp
NoneStr == "None"          \* None in place of a string
Sources == {"ed", "anf"}
Urls == 1..MaxUrl

\* number of listing pages per section: range(num_pages) in scraper.py, range(1, 6) in
\* scraper_anf.py, one page fewer
PageBudget(src) == IF src = "ed" THEN MaxPages ELSE MaxPages - 1

Min(a, b) == IF a < b THEN a ELSE b
Range(s) == {s[i] : i \in DOMAIN s}

(***************************************************************************)
(* Date text.  A text is the sequence of its whitespace-separated tokens   *)
(* (clean_text collapses every run of whitespace); a comma is a token of   *)
(* its own.                                                                *)
(***************************************************************************)
SpanishMonths == <<"enero", "febrero", "marzo", "abril", "mayo", "junio", "julio",
                   "agosto", "septiembre", "octubre", "noviembre", "diciembre">>

\* digit strings: their value and their number of digits
NumTok == [ x \in {"5", "12", "25", "31", "99", "2025"} |->
            CASE x = "5" -> [v |-> 5, n |-> 1]
              [] x = "12" -> [v |-> 12, n |-> 2]
              [] x = "25" -> [v |-> 25, n |-> 2]
              [] x = "31" -> [v |-> 31, n |-> 2]
              [] x = "99" -> [v |-> 99, n |-> 2]
              [] x = "2025" -> [v |-> 2025, n |-> 4] ]

\* strings of the shape digits:digits
TimeTok == [ x \in {"14:30", "9:05", "25:61"} |->
             CASE x = "14:30" -> [h |-> 14, m |-> 30]
               [] x = "9:05" -> [h |-> 9, m |-> 5]
               [] x = "25:61" -> [h |-> 25, m |-> 61] ]

\* words made of letters only
Words == Range(SpanishMonths) \cup {"jueves", "de", "hace", "horas", "junnio"}

DaysIn(m, y) ==
  IF m \in {4, 6, 9, 11} THEN 30
  ELSE IF m = 2 THEN (IF y % 4 = 0 /\ (y % 100 # 0 \/ y % 400 = 0) THEN 29 ELSE 28)
  ELSE 31

\* scraper.py: meses
meses == [ x \in Range(SpanishMonths) |->
           CASE x = "enero" -> "01" [] x = "febrero" -> "02" [] x = "marzo" -> "03"
             [] x = "abril" -> "04" [] x = "mayo" -> "05" [] x = "junio" -> "06"
             [] x = "julio" -> "07" [] x = "agosto" -> "08" [] x = "septiembre" -> "09"
             [] x = "octubre" -> "10" [] x = "noviembre" -> "11" [] x = "diciembre" -> "12" ]

\* the number a strptime %m field reads from a two-digit string
TwoDigit == [ x \in {"01", "02", "03", "04", "05", "06", "07", "08", "09", "10", "11", "12"} |->
              CASE x = "01" -> 1 [] x = "02" -> 2 [] x = "03" -> 3 [] x = "04" -> 4
                [] x = "05" -> 5 [] x = "06" -> 6 [] x = "07" -> 7 [] x = "08" -> 8
                [] x = "09" -> 9 [] x = "10" -> 10 [] x = "11" -> 11 [] x = "12" -> 12 ]

\* scraper_anf.py: months
months == [ x \in Range(SpanishMonths) |->
            CASE x = "enero" -> "january" [] x = "febrero" -> "february"
              [] x = "marzo" -> "march" [] x = "abril" -> "april" [] x = "mayo" -> "may"
              [] x = "junio" -> "june" [] x = "julio" -> "july" [] x = "agosto" -> "august"
              [] x = "septiembre" -> "september" [] x = "octubre" -> "october"
              [] x = "noviembre" -> "november" [] x = "diciembre" -> "december" ]

\* the month number a strptime %B field reads
EnglishMonth == [ x \in {"january", "february", "march", "april", "may", "june", "july",
                         "august", "september", "october", "november", "december"} |->
                  CASE x = "january" -> 1 [] x = "february" -> 2 [] x = "march" -> 3
                    [] x = "april" -> 4 [] x = "may" -> 5 [] x = "june" -> 6
                    [] x = "july" -> 7 [] x = "august" -> 8 [] x = "september" -> 9
                    [] x = "october" -> 10 [] x = "november" -> 11 [] x = "december" -> 12 ]

\* strptime fields: %d, %Y, %H:%M
IsDayField(t) == t \in DOMAIN NumTok /\ NumTok[t].n <= 2 /\ NumTok[t].v \in 1..31
IsYearField(t) == t \in DOMAIN NumTok /\ NumTok[t].n = 4
IsTimeField(t) == t \in DOMAIN TimeTok /\ TimeTok[t].h \in 0..23 /\ TimeTok[t].m \in 0..59

\* datetime.strptime(f"{dia}-{mes}-{anio} {hora}", "%d-%m-%Y %H:%M"); Null where it raises
strptime_dmY_HM(dia, mes, anio, hora) ==
  IF /\ IsDayField(dia) /\ mes \in DOMAIN TwoDigit /\ IsYearField(anio) /\ IsTimeField(hora)
     /\ NumTok[dia].v <= DaysIn(TwoDigit[mes], NumTok[anio].v)
  THEN [y |-> NumTok[anio].v, mo |-> TwoDigit[mes], d |-> NumTok[dia].v,
        h |-> TimeTok[hora].h, mi |-> TimeTok[hora].m]
  ELSE Null

\* scraper.py: parse_fecha.  absent is TRUE when the argument is NaN (not a string)
parse_fecha(absent, texto) ==
  IF absent \/ texto = <<>> THEN Null
  ELSE LET partes == texto IN
       IF Len(partes) < 5 THEN Null                     \* IndexError, caught
       ELSE LET dia == partes[1]
                mes == IF partes[3] \in DOMAIN meses THEN meses[partes[3]] ELSE NoneStr
                anio == partes[5]
                hora == partes[Len(partes)]
            IN IF mes = NoneStr THEN Null ELSE strptime_dmY_HM(dia, mes, anio, hora)

\* scraper.py: .str.split(",", n=1).str[1].str.strip(): the text after the first comma
AfterFirstComma(text) ==
  IF \E i \in DOMAIN text : text[i] = ","
  THEN LET i == CHOOSE i \in DOMAIN text : text[i] = "," /\ \A j \in 1..(i - 1) : text[j] # ","
       IN [absent |-> FALSE, toks |-> SubSeq(text, i + 1, Len(text))]
  ELSE [absent |-> TRUE, toks |-> <<>>]

\* scraper.py: the "datetime" column of one row
ed_datetime(date_extracted) ==
  LET rest == AfterFirstComma(date_extracted) IN parse_fecha(rest.absent, rest.toks)

\* the last one or two digits of a digit string: what \d{1,2} followed by " de" matches
DayPart(t) == IF NumTok[t].n <= 2 THEN t ELSE "25"

\* scraper_anf.py: date_pattern matched at token i
DatePatternAt(text, i) ==
  /\ i + 4 <= Len(text)
  /\ text[i] \in DOMAIN NumTok
  /\ text[i + 1] = "de"
  /\ text[i + 2] \in Words
  /\ text[i + 3] = "de"
  /\ text[i + 4] \in DOMAIN NumTok /\ NumTok[text[i + 4]].n >= 4

\* scraper_anf.py: df["date_extracted"].str.extract(date_pattern): the first match, or NaN
extract_date_str(text) ==
  IF \E i \in DOMAIN text : DatePatternAt(text, i)
  THEN LET i == CHOOSE i \in DOMAIN text :
                  DatePatternAt(text, i) /\ \A j \in 1..(i - 1) : ~DatePatternAt(text, j)
       IN <<DayPart(text[i]), "de", text[i + 2], "de", text[i + 4]>>
  ELSE <<>>

\* scraper_anf.py: df["date_extracted"].str.extract(time_pattern): the first match, or NaN
extract_time_str(text) ==
  IF \E i \in DOMAIN text : text[i] \in DOMAIN TimeTok
  THEN LET i == CHOOSE i \in DOMAIN text :
                  text[i] \in DOMAIN TimeTok /\ \A j \in 1..(i - 1) : text[j] \notin DOMAIN TimeTok
       IN <<text[i]>>
  ELSE <<>>

\* scraper_anf.py: df["date_str"].replace(months, regex=True)
replace_months(date_str) ==
  [i \in DOMAIN date_str |->
     IF date_str[i] \in DOMAIN months THEN months[date_str[i]] ELSE date_str[i]]

\* pd.to_datetime(..., format="%d %B %Y", errors="coerce"): the whole string must match
to_datetime_dBY(s) ==
  IF /\ Len(s) = 3 /\ IsDayField(s[1]) /\ s[2] \in DOMAIN EnglishMonth /\ IsYearField(s[3])
     /\ NumTok[s[1]].v <= DaysIn(EnglishMonth[s[2]], NumTok[s[3]].v)
  THEN [y |-> NumTok[s[3]].v, mo |-> EnglishMonth[s[2]], d |-> NumTok[s[1]].v]
  ELSE Null

\* pd.to_datetime(..., format="%H:%M", errors="coerce").dt.time
to_datetime_HM(s) ==
  IF Len(s) = 1 /\ IsTimeField(s[1])
  THEN [h |-> TimeTok[s[1]].h, mi |-> TimeTok[s[1]].m]
  ELSE Null

\* scraper_anf.py: the "date" column of one row
anf_date(date_extracted) == to_datetime_dBY(replace_months(extract_date_str(date_extracted)))

\* scraper_anf.py: the "time" column of one row
anf_time(date_extracted) == to_datetime_HM(extract_time_str(date_extracted))

(***************************************************************************)
(* URLs.  A URL string is the sequence of its pieces, "/" being a piece of *)
(* its own: https://host/economia/nota is                                  *)
(* <<"https:", "/", "/", "host", "/", "economia", "/", "nota">>.          *)
(***************************************************************************)
Host == "host"
Segments == {"economia", "Economia", "nacional", "politica", "nota"}

RECURSIVE PathString(_)
PathString(path) ==
  IF path = <<>> THEN <<>> ELSE <<"/", Head(path)>> \o PathString(Tail(path))

\* the URL with the given path segments, with or without a trailing slash
UrlString(path, slash) ==
  <<"https:", "/", "/", Host>> \o PathString(path) \o (IF slash THEN <<"/">> ELSE <<>>)

\* str.split("/")
RECURSIVE split_slash(_)
split_slash(str) ==
  IF str = <<>> THEN <<"">>
  ELSE LET front == split_slash(SubSeq(str, 1, Len(str) - 1))
           last == str[Len(str)]
       IN IF last = "/" THEN Append(front, "")
          ELSE [front EXCEPT ![Len(front)] = last]

\* str.strip("/")
RECURSIVE strip_slash(_)
strip_slash(str) ==
  IF str = <<>> THEN <<>>
  ELSE IF Head(str) = "/" THEN strip_slash(Tail(str))
  ELSE IF str[Len(str)] = "/" THEN strip_slash(SubSeq(str, 1, Len(str) - 1))
  ELSE str

\* str.lower()
lower(x) == IF x = "Economia" THEN "economia" ELSE x

\* urlparse(url).path: what follows scheme://netloc
urlparse_path(url) == SubSeq(url, 5, Len(url))

\* a section value: a string of segments joined by "/", or None
Some(segs) == [some |-> TRUE, segs |-> segs]
None == [some |-> FALSE]

\* scraper.py: extract_section
ed_extract_section(url) ==
  LET path == strip_slash(urlparse_path(url)) IN
  IF path = <<>> THEN Some(<<"unknown">>)
  ELSE Some(<<lower(split_slash(path)[1])>>)

\* extract_section with the length test off by one
anf_extract_section_short(url) ==
  LET parts == split_slash(url) IN
  IF Len(parts) < 4 THEN None
  ELSE Some(SubSeq(parts, 4, Len(parts) - 1))

\* scraper_anf.py: extract_section
anf_extract_section(url) ==
  LET parts == split_slash(url) IN
  IF Len(parts) < 5 THEN None
  ELSE Some(SubSeq(parts, 4, Len(parts) - 1))

extract_section(src, url) ==
  IF src = "ed" THEN ed_extract_section(url) ELSE anf_extract_section(url)

(***************************************************************************)
(* The remote site and the store                                           *)
(***************************************************************************)
\* scraper.py: sections / scraper_anf.py: sections (the first two of each list)
sections(src) ==
  IF src = "ed" THEN <<"pais", "economia">> ELSE <<"nacional", "nacional/politica">>

\* the URL string of article link u
UrlOf(u) ==
  IF u % 2 = 1 THEN UrlString(<<"economia", ToString(u)>>, FALSE)
  ELSE UrlString(<<"nacional", "politica", ToString(u)>>, FALSE)

\* load_existing_urls reads this table ...
ExistingTable(src) == IF src = "ed" THEN "news_articles" ELSE "anf_articles"
\* ... and the insert loop writes this one
TargetTable(src) == IF src = "ed" THEN "ed_articles" ELSE "anf_articles"
Tables == {"news_articles", "ed_articles", "anf_articles"}

\* what a listing page request returns: a failure, or the article links of the page
\* that pass the script's filters (a title and an href)
PageFail == [ok |-> FALSE, links |-> {}]
PageResults == {PageFail} \cup {[ok |-> TRUE, links |-> L] : L \in SUBSET Urls}

\* what an article page request returns
Kinds == {"fail", "headline_only", "full", "garbled"}
WellFormedDate == <<"jueves", ",", "12", "de", "junio", "de", "2025", "14:30">>
GarbledDate == <<"hace", "5", "horas">>
ArticlePage(k) ==
  [ok |-> k # "fail",
   h1 |-> k # "fail",
   fecha |-> IF k = "full" THEN WellFormedDate ELSE IF k = "garbled" THEN GarbledDate ELSE <<>>,
   cuerpo |-> k \in {"full", "garbled"}]

Unknown == [known |-> FALSE]
Known(x) == [known |-> TRUE, val |-> x]

\* the site is free to answer anything, unless it is unchanged: then it answers a
\* request as it answered the same request before
ServesList(s, p, r) == ~unchanged \/ remote_list[s][p] \in {Unknown, Known(r)}
ServesArticle(u, k) == ~unchanged \/ remote_art[u] \in {Unknown, Known(k)}
RemoteAfterList(s, p, r) ==
  IF unchanged THEN [remote_list EXCEPT ![s][p] = Known(r)] ELSE remote_list
RemoteAfterArticle(u, k) ==
  IF unchanged THEN [remote_art EXCEPT ![u] = Known(k)] ELSE remote_art

\* a row stored before the first run
OldRow(src, u) ==
  [url |-> u, headline |-> "h", published |-> Null, section |-> extract_section(src, UrlOf(u))]

UrlsOf(rowset) == {r.url : r \in rowset}

\* the links of a set in the order the page lists them
RECURSIVE InOrder(_)
InOrder(L) ==
  IF L = {} THEN <<>>
  ELSE LET m == CHOOSE x \in L : \A y \in L : x <= y IN <<m>> \o InOrder(L \ {m})

Final == {"done", "exited", "crashed", "aborted"}

(***************************************************************************)
(* Start of a run                                                          *)
(***************************************************************************)
RunLocalsReset ==
  /\ sec' = 1 /\ page' = 1
  /\ all_articles' = <<>> /\ seen_urls' = {} /\ candidates' = <<>> /\ pos' = 1
  /\ full_articles' = <<>> /\ rows' = <<>> /\ pending' = {}
  /\ visited' = <<>> /\ hits' = [u \in Urls |-> 0] /\ fetched' = <<>> /\ outcomes' = <<>>

InitStore(S) ==
  [t \in Tables |->
     IF t = "ed_articles" THEN {}
     ELSE {OldRow(IF t = "news_articles" THEN "ed" ELSE "anf", u) : u \in S}]

InitWith(same, stores) ==
  /\ source \in Sources
  /\ unchanged = same
  /\ remote_list = [s \in DOMAIN sections(source) |-> [p \in 1..PageBudget(source) |-> Unknown]]
  /\ remote_art = [u \in Urls |-> Unknown]
  /\ \E S \in stores : db = InitStore(S)
  /\ run = 1 /\ pc = "start"
  /\ existing_urls = {}
  /\ sec = 1 /\ page = 1
  /\ all_articles = <<>> /\ seen_urls = {} /\ candidates = <<>> /\ pos = 1
  /\ full_articles = <<>> /\ rows = <<>> /\ pending = {}
  /\ visited = <<>> /\ hits = [u \in Urls |-> 0] /\ fetched = <<>> /\ outcomes = <<>>
  /\ snap = InitStore({}) /\ ended1 = "none"
  /\ probe = [fn |-> "none"]

Init == InitWith(FALSE, SUBSET Urls)
InitTwice == InitWith(TRUE, SUBSET Urls)

\* load_existing_urls
LoadExistingUrls ==
  /\ pc = "start"
  /\ existing_urls' = UrlsOf(db[ExistingTable(source)])
  /\ pc' = "crawl"
  /\ UNCHANGED <<source, unchanged, remote_list, remote_art, db, run, sec, page,
                 all_articles, seen_urls, candidates, pos, full_articles, rows, pending,
                 visited, hits, fetched, outcomes, snap, ended1, probe>>

(***************************************************************************)
(* Crawl of the listing pages                                              *)
(***************************************************************************)
\* history entry of one listing page fetch: the page, the number of candidates the
\* script collected from it, and what the page held
\*   "fail"    the request failed
\*   "empty"   no candidate link
\*   "stored"  candidates, every one of them in existing_urls
\*   "seen"    candidates outside existing_urls, every one of them collected earlier in the run
\*   "new"     a candidate neither in existing_urls nor collected earlier in the run
Visit(r, seen, got) ==
  [sec |-> sec, page |-> page, got |-> got,
   held |-> IF ~r.ok THEN "fail"
            ELSE IF r.links = {} THEN "empty"
            ELSE IF r.links \subseteq existing_urls THEN "stored"
            ELSE IF r.links \subseteq (existing_urls \cup seen) THEN "seen"
            ELSE "new"]

HitsAfter(r) == [u \in Urls |-> IF u \in r.links THEN Min(hits[u] + 1, 2) ELSE hits[u]]

\* scrape_section_page reporting new articles on a failed request
scrape_section_page_failnew(r, existing) ==
  LET all_news == IF r.ok
                  THEN SelectSeq(InOrder(r.links),
                                 LAMBDA link : ~(existing # {} /\ link \in existing))
                  ELSE <<>>
  IN [all_news |-> all_news, found_new |-> all_news # <<>> \/ ~r.ok]

\* scraper.py: scrape_section_page
scrape_section_page(r, existing) ==
  LET all_news == IF r.ok
                  THEN SelectSeq(InOrder(r.links),
                                 LAMBDA link : ~(existing # {} /\ link \in existing))
                  ELSE <<>>
  IN [all_news |-> all_news, found_new |-> all_news # <<>>]

\* the inner loop without its break
ed_next_page_nobreak(found_new, p) == p < PageBudget("ed")

\* scraper.py: scrape_initial_run, whether the inner loop goes on to the next page
ed_next_page(found_new, p) == found_new /\ p < PageBudget("ed")

\* scraper.py: scrape_initial_run, one pass of the inner loop
EdScrapePage ==
  /\ source = "ed" /\ pc = "crawl"
  /\ \E r \in PageResults :
       /\ ServesList(sec, page, r)
       /\ remote_list' = RemoteAfterList(sec, page, r)
       /\ LET res == scrape_section_page(r, existing_urls) IN
            /\ all_articles' = all_articles \o res.all_news
            /\ visited' = Append(visited, Visit(r, Range(all_articles), Len(res.all_news)))
            /\ hits' = HitsAfter(r)
            /\ IF ed_next_page(res.found_new, page)
               THEN page' = page + 1 /\ sec' = sec /\ pc' = pc
               ELSE IF sec < Len(sections(source))
               THEN page' = 1 /\ sec' = sec + 1 /\ pc' = pc
               ELSE page' = page /\ sec' = sec /\ pc' = "frame"
  /\ UNCHANGED <<source, unchanged, remote_art, db, run, existing_urls, seen_urls,
                 candidates, pos, full_articles, rows, pending, fetched, outcomes,
                 snap, ended1, probe>>

\* the frame without drop_duplicates
keep_duplicates(links) == links

\* df.drop_duplicates(subset=["link"]): the first occurrence of every link
RECURSIVE drop_duplicates(_)
drop_duplicates(links) ==
  IF links = <<>> THEN <<>>
  ELSE LET front == drop_duplicates(SubSeq(links, 1, Len(links) - 1))
           last == links[Len(links)]
       IN IF last \in Range(front) THEN front ELSE Append(front, last)

\* scraper.py lines 192-196: the frame of the candidates.  pd.DataFrame([]) has no
\* "title" column, so df["title"] raises KeyError when nothing was collected
EdFrame ==
  /\ source = "ed" /\ pc = "frame"
  /\ IF all_articles = <<>>
     THEN pc' = "crashed" /\ candidates' = candidates
     ELSE pc' = "extract" /\ candidates' = drop_duplicates(all_articles)
  /\ pos' = 1
  /\ UNCHANGED <<source, unchanged, remote_list, remote_art, db, run, existing_urls,
                 sec, page, all_articles, seen_urls, full_articles, rows, pending,
                 visited, hits, fetched, outcomes, snap, ended1, probe>>

\* the listing loop without its seen_urls test
anf_new_links_noseen(r, seen, existing) ==
  IF r.ok
  THEN SelectSeq(InOrder(r.links), LAMBDA full_url : full_url \notin existing)
  ELSE <<>>

\* scraper_anf.py lines 139-171: the links of one listing page that are kept
anf_new_links(r, seen, existing) ==
  IF r.ok
  THEN SelectSeq(InOrder(r.links), LAMBDA full_url : full_url \notin seen /\ full_url \notin existing)
  ELSE <<>>

\* scraper_anf.py: the loop over list_urls goes on to the next page of the section
anf_next_page(r, p) == p < PageBudget("anf")

\* scraper_anf.py lines 128-171: one pass of the loop over list_urls
AnfListPage ==
  /\ source = "anf" /\ pc = "crawl"
  /\ \E r \in PageResults :
       /\ ServesList(sec, page, r)
       /\ remote_list' = RemoteAfterList(sec, page, r)
       /\ LET new == anf_new_links(r, seen_urls, existing_urls) IN
            /\ seen_urls' = seen_urls \cup Range(new)
            /\ all_articles' = all_articles \o new
            /\ visited' = Append(visited, Visit(r, seen_urls, Len(new)))
            /\ hits' = HitsAfter(r)
            /\ IF anf_next_page(r, page)
               THEN page' = page + 1 /\ sec' = sec /\ pc' = pc /\ candidates' = candidates
               ELSE IF sec < Len(sections(source))
               THEN page' = 1 /\ sec' = sec + 1 /\ pc' = pc /\ candidates' = candidates
               ELSE page' = page /\ sec' = sec /\ pc' = "extract"
                    /\ candidates' = all_articles'
  /\ pos' = 1
  /\ UNCHANGED <<source, unchanged, remote_art, db, run, existing_urls,
                 full_articles, rows, pending, fetched, outcomes, snap, ended1, probe>>

(***************************************************************************)
(* Extraction of the candidates                                            *)
(***************************************************************************)
\* scraper.py: extract_full_article.  A failed request gives a record of empty strings
extract_full_article(u, k) ==
  LET doc == ArticlePage(k) IN
  IF ~doc.ok
  THEN Some([url |-> u, headline |-> "", date_extracted |-> <<>>, content |-> ""])
  ELSE Some([url |-> u,
             headline |-> IF doc.h1 THEN "h" ELSE "",
             date_extracted |-> doc.fecha,
             content |-> IF doc.cuerpo THEN "c" ELSE ""])

\* scraper_anf.py: extract_article.  None on a failed request and on a page without content
extract_article(u, k) ==
  LET doc == ArticlePage(k) IN
  IF ~doc.ok THEN None
  ELSE IF ~doc.cuerpo THEN None
  ELSE Some([url |-> u,
             headline |-> IF doc.h1 THEN "h" ELSE NoneStr,
             date_extracted |-> doc.fecha,
             content |-> "c"])

extract(src, u, k) == IF src = "ed" THEN extract_full_article(u, k) ELSE extract_article(u, k)

\* scraper.py line 198 / scraper_anf.py lines 180-186: one candidate of the extraction loop
ExtractOne ==
  /\ pc = "extract" /\ pos <= Len(candidates)
  /\ \E k \in Kinds :
       /\ ServesArticle(candidates[pos], k)
       /\ remote_art' = RemoteAfterArticle(candidates[pos], k)
       /\ LET article_data == extract(source, candidates[pos], k) IN
            full_articles' = IF article_data.some
                             THEN Append(full_articles, article_data.segs)
                             ELSE full_articles
       /\ fetched' = Append(fetched, [url |-> candidates[pos], kind |-> k])
  /\ pos' = pos + 1
  /\ UNCHANGED <<source, unchanged, remote_list, db, run, pc, existing_urls, sec, page,
                 all_articles, seen_urls, candidates, rows, pending, visited, hits,
                 outcomes, snap, ended1, probe>>

(***************************************************************************)
(* Normalization of the batch                                              *)
(***************************************************************************)
\* scraper.py lines 207-215: the columns of one row
ed_row(rec) ==
  [url |-> rec.url, headline |-> rec.headline,
   published |-> ed_datetime(rec.date_extracted),
   section |-> ed_extract_section(UrlOf(rec.url))]

\* scraper_anf.py lines 218-237 and 299: the columns of one row
anf_row(rec) ==
  [url |-> rec.url, headline |-> rec.headline,
   published |-> [date |-> anf_date(rec.date_extracted), time |-> anf_time(rec.date_extracted)],
   section |-> anf_extract_section(UrlOf(rec.url))]

\* scraper.py lines 210-211: Series.dt exists only on a datetime column; a column whose
\* every value is None keeps dtype object and .dt raises AttributeError
dt_accessor_raises(frame) == \A i \in DOMAIN frame : frame[i].published = Null

\* scraper.py lines 201-215: the frame df_diario
EdNormalize ==
  /\ source = "ed" /\ pc = "extract" /\ pos > Len(candidates)
  /\ LET frame == [i \in DOMAIN full_articles |-> ed_row(full_articles[i])] IN
       IF dt_accessor_raises(frame)
       THEN pc' = "crashed" /\ rows' = rows
       ELSE pc' = "insert" /\ rows' = frame
  /\ pos' = 1
  /\ UNCHANGED <<source, unchanged, remote_list, remote_art, db, run, existing_urls,
                 sec, page, all_articles, seen_urls, candidates, full_articles, pending,
                 visited, hits, fetched, outcomes, snap, ended1, probe>>

\* scraper_anf.py lines 188-299: SystemExit without articles, else the frame df
AnfNormalize ==
  /\ source = "anf" /\ pc = "extract" /\ pos > Len(candidates)
  /\ IF full_articles = <<>>
     THEN pc' = "exited" /\ rows' = rows
     ELSE pc' = "insert" /\ rows' = [i \in DOMAIN full_articles |-> anf_row(full_articles[i])]
  /\ pos' = 1
  /\ UNCHANGED <<source, unchanged, remote_list, remote_art, db, run, existing_urls,
                 sec, page, all_articles, seen_urls, candidates, full_articles, pending,
                 visited, hits, fetched, outcomes, snap, ended1, probe>>

(***************************************************************************)
(* The insert loop: one transaction (engine.begin) around every statement  *)
(***************************************************************************)
\* the statement without its ON CONFLICT clause
insert_plain(row, committed, written) ==
  [result |-> "Inserted", written |-> written \cup {row}]

\* insert(...).on_conflict_do_nothing(index_elements=["url"]) as seen by the transaction
on_conflict_do_nothing(row, committed, written) ==
  IF row.url \in UrlsOf(committed \cup written)
  THEN [result |-> "SkippedDuplicate", written |-> written]
  ELSE [result |-> "Inserted", written |-> written \cup {row}]

\* what stays of the rows the transaction wrote when a statement raises: engine.begin
\* rolls the transaction back
after_error(committed, written) == committed

\* what the store holds when the with block ends normally: engine.begin commits
after_commit(committed, written) == committed \cup written

\* scraper.py lines 222-225 / scraper_anf.py lines 308-312: one statement of the loop
InsertRow ==
  /\ pc = "insert" /\ pos <= Len(rows)
  /\ LET res == on_conflict_do_nothing(rows[pos], db[TargetTable(source)], pending) IN
       /\ pending' = res.written
       /\ outcomes' = Append(outcomes, [url |-> rows[pos].url, result |-> res.result])
  /\ pos' = pos + 1
  /\ UNCHANGED <<source, unchanged, remote_list, remote_art, db, run, pc, existing_urls,
                 sec, page, all_articles, seen_urls, candidates, full_articles, rows,
                 visited, hits, fetched, snap, ended1, probe>>

\* the store fails on a statement (connection lost, statement rejected): the exception
\* leaves the with block and ends the script
InsertFails ==
  /\ pc = "insert" /\ pos <= Len(rows)
  /\ db' = [db EXCEPT ![TargetTable(source)] = after_error(@, pending)]
  /\ outcomes' = Append(outcomes, [url |-> rows[pos].url, result |-> "StoreError"])
  /\ pc' = "aborted"
  /\ UNCHANGED <<source, unchanged, remote_list, remote_art, run, existing_urls,
                 sec, page, all_articles, seen_urls, candidates, pos, full_articles, rows,
                 pending, visited, hits, fetched, snap, ended1, probe>>

\* the end of the with block
Commit ==
  /\ pc = "insert" /\ pos > Len(rows)
  /\ db' = [db EXCEPT ![TargetTable(source)] = after_commit(@, pending)]
  /\ pc' = "done"
  /\ UNCHANGED <<source, unchanged, remote_list, remote_art, run, existing_urls,
                 sec, page, all_articles, seen_urls, candidates, pos, full_articles, rows,
                 pending, visited, hits, fetched, outcomes, snap, ended1, probe>>

\* the script is started again
NextRun ==
  /\ pc \in Final /\ run = 1
  /\ run' = run + 1
  /\ snap' = db /\ ended1' = pc
  /\ pc' = "start"
  /\ existing_urls' = {}
  /\ RunLocalsReset
  /\ UNCHANGED <<source, unchanged, remote_list, remote_art, db, probe>>

Next ==
  \/ LoadExistingUrls
  \/ EdScrapePage
  \/ EdFrame
  \/ AnfListPage
  \/ ExtractOne
  \/ EdNormalize
  \/ AnfNormalize
  \/ InsertRow
  \/ InsertFails
  \/ Commit

NextTwice == Next \/ NextRun

Spec == Init /\ [][Next]_vars
SpecTwice == InitTwice /\ [][NextTwice]_vars

(***************************************************************************)
(* Properties                                                              *)
(***************************************************************************)
\* the listing pages of section s fetched in this run, in the order of their fetch
PagesOf(s) == SelectSeq(visited, LAMBDA v : v.sec = s)
SectionIds == DOMAIN sections(source)
CrawlOver == pc \notin {"start", "crawl"}
Unstored == {"seen", "new"}   \* pages holding a candidate that is not in existing_urls
UpsertsOf(u) == {i \in DOMAIN outcomes : outcomes[i].url = u}
FetchesOf(u) == {i \in DOMAIN fetched : fetched[i].url = u}

\* the pages of section s were fetched in increasing order from the first one and
\* page k was the last one
StoppedAt(s, k) ==
  /\ Len(PagesOf(s)) = k
  /\ \A j \in DOMAIN PagesOf(s) : PagesOf(s)[j].page = j

\* every listing page of every section was fetched, in the order of list_urls
AllPagesFetched(src) ==
  \A s \in SectionIds :
    /\ Len(PagesOf(s)) = PageBudget(src)
    /\ \A j \in DOMAIN PagesOf(s) : PagesOf(s)[j].page = j

\* C1: idempotence.  When the first run was not cut short by a store error and the
\* remote site is unchanged, the second run adds nothing: the target table equals the
\* table left by the first run, the transaction holds no new row, and every insert
\* statement the store executes resolves to SkippedDuplicate.
C1_Idempotent ==
  (run = 2 /\ ended1 # "aborted") =>
    /\ db = snap
    /\ pending = {}
    /\ \A i \in DOMAIN outcomes : outcomes[i].result \in {"SkippedDuplicate", "StoreError"}

\* a second run in which candidates reached the upsert and were skipped
C1_Witness ==
  /\ run = 2 /\ ended1 = "done" /\ pc = "done"
  /\ snap[TargetTable(source)] # {}
  /\ outcomes # <<>>
  /\ \A i \in DOMAIN outcomes : outcomes[i].result = "SkippedDuplicate"

\* C2 as stated, for both scripts: when pages 1..k-1 of a section each held a candidate
\* outside existing_urls and page k held only stored candidates, exactly the pages 1..k
\* of the section are fetched, in increasing order.
C2_EarlyStopClaim ==
  \A s \in SectionIds : \A k \in DOMAIN PagesOf(s) :
    ( /\ \A j \in 1..(k - 1) : PagesOf(s)[j].held \in Unstored
      /\ PagesOf(s)[k].held = "stored" )
    => StoppedAt(s, k)

\* C2 amended: the early stop holds in scraper.py; scraper_anf.py has no early stop and
\* fetches every listing page of every section.
C2_EarlyStop ==
  /\ source = "ed" => C2_EarlyStopClaim
  /\ (source = "anf" /\ CrawlOver) => AllPagesFetched("anf")

\* scraper.py stopped a section at its second page, inside the budget of three
C2_Witness ==
  /\ source = "ed" /\ pc = "done"
  /\ \E s \in SectionIds :
       /\ Len(PagesOf(s)) = 2 /\ 2 < PageBudget("ed")
       /\ PagesOf(s)[1].held \in Unstored
       /\ PagesOf(s)[2].held = "stored"

\* C3: within one run every article URL is fetched at most once and is the subject of
\* at most one insert statement, on however many listing pages it was found.
C3_AtMostOnce ==
  \A u \in Urls : Cardinality(FetchesOf(u)) <= 1 /\ Cardinality(UpsertsOf(u)) <= 1

\* a URL listed on two pages was fetched and upserted
C3_Witness ==
  \E u \in Urls : hits[u] = 2 /\ FetchesOf(u) # {} /\ UpsertsOf(u) # {}

\* C4 as stated: when an insert statement fails, the rows written earlier in the run
\* remain in the store.
C4_PerRecordAtomicClaim ==
  pc = "aborted" =>
    \A i \in DOMAIN outcomes :
      outcomes[i].result = "Inserted" => outcomes[i].url \in UrlsOf(db[TargetTable(source)])

\* C5 as stated: a candidate whose request failed is never upserted, and in a run with
\* such a candidate that no store error cut short every candidate with usable content
\* is still upserted.
C5_FailureIsolationClaim ==
  /\ \A i \in DOMAIN fetched : fetched[i].kind = "fail" => UpsertsOf(fetched[i].url) = {}
  /\ (pc \in Final \ {"aborted"} /\ \E i \in DOMAIN fetched : fetched[i].kind = "fail") =>
       \A i \in DOMAIN fetched :
         fetched[i].kind \in {"full", "garbled"} => UpsertsOf(fetched[i].url) # {}

\* C6 as stated: a candidate whose page gives only a headline still becomes a row with a
\* null timestamp and the section of its URL, and the row is upserted by a run that no
\* store error cut short.
C6_PartialFieldClaim ==
  pc \in Final \ {"aborted"} =>
    \A i \in DOMAIN fetched :
      fetched[i].kind = "headline_only" =>
        /\ \E j \in DOMAIN rows :
             /\ rows[j].url = fetched[i].url
             /\ rows[j].published \in {Null, [date |-> Null, time |-> Null]}
             /\ rows[j].section = extract_section(source, UrlOf(fetched[i].url))
        /\ UpsertsOf(fetched[i].url) # {}

\* C9 as stated, for both scripts: a listing page whose request fails gives no candidate
\* and is the last page fetched of its section, and every section is still crawled.
C9_ListingFailureClaim ==
  /\ \A s \in SectionIds : \A k \in DOMAIN PagesOf(s) :
       PagesOf(s)[k].held = "fail" => PagesOf(s)[k].got = 0 /\ StoppedAt(s, k)
  /\ CrawlOver => \A s \in SectionIds : PagesOf(s) # <<>>

\* C9 amended: this holds in scraper.py; in scraper_anf.py a failed listing page gives no
\* candidate and the loop goes on with the next page of the same section.
C9_ListingFailure ==
  /\ source = "ed" => C9_ListingFailureClaim
  /\ source = "anf" =>
       /\ \A i \in DOMAIN visited : visited[i].held = "fail" => visited[i].got = 0
       /\ CrawlOver => AllPagesFetched("anf")

\* scraper.py: the first page of the first section failed, the section stopped there and
\* the next section was crawled and gave candidates
C9_Witness ==
  /\ source = "ed" /\ CrawlOver
  /\ Len(PagesOf(1)) = 1 /\ PagesOf(1)[1].held = "fail"
  /\ PagesOf(2) # <<>> /\ PagesOf(2)[1].got > 0

\* C10 as stated, for both scripts: a page gives candidates iff it holds a link that is
\* neither in existing_urls nor collected earlier in the run, and a page without such a
\* link is the last page fetched of its section.
C10_NewnessClaim ==
  \A s \in SectionIds : \A k \in DOMAIN PagesOf(s) :
    /\ PagesOf(s)[k].got > 0 <=> PagesOf(s)[k].held = "new"
    /\ PagesOf(s)[k].held # "new" => StoppedAt(s, k)

\* C10 amended.  scraper.py consults existing_urls only: a page gives candidates, and
\* pagination goes on, iff the page holds a link outside existing_urls, also when every
\* such link was collected earlier in the run; the repeats are collected again.
\* scraper_anf.py consults both sets when it collects (no link is collected twice, none
\* that is stored), and no page stops its pagination.
C10_Newness ==
  /\ source = "ed" =>
       /\ \A s \in SectionIds : \A k \in DOMAIN PagesOf(s) :
            /\ PagesOf(s)[k].got > 0 <=> PagesOf(s)[k].held \in Unstored
            /\ PagesOf(s)[k].held \notin Unstored => StoppedAt(s, k)
            /\ k < Len(PagesOf(s)) => PagesOf(s)[k].held \in Unstored
       /\ \A u \in Urls \ existing_urls : hits[u] = 2 => Cardinality({i \in DOMAIN all_articles : all_articles[i] = u}) >= 2
  /\ source = "anf" =>
       /\ \A i \in DOMAIN visited : visited[i].got > 0 <=> visited[i].held = "new"
       /\ \A i, j \in DOMAIN all_articles : all_articles[i] = all_articles[j] => i = j
       /\ Range(all_articles) \cap existing_urls = {}
       /\ seen_urls = Range(all_articles)
       /\ CrawlOver => AllPagesFetched("anf")

\* scraper.py went on to the second page of a section after a first page whose only
\* unstored links had been collected from an earlier section
C10_Witness ==
  /\ source = "ed"
  /\ \E s \in SectionIds :
       Len(PagesOf(s)) >= 2 /\ PagesOf(s)[1].held = "seen" /\ PagesOf(s)[1].got > 0

\* the rows the table of the insert loop held when load_existing_urls ran.  The table
\* changes only when the with block commits, and the rows it then gains are the rows of
\* pending, whose URLs the table did not hold.
TableAtLoad ==
  IF pc = "done" THEN db[TargetTable(source)] \ pending ELSE db[TargetTable(source)]

\* the URLs the first run of the script left in the table of the insert loop
PersistedByRun1 == UrlsOf(snap[TargetTable(source)])

\* C11 as stated, for both scripts: once load_existing_urls has run, existing_urls is
\* the set of URLs that the table written by the insert loop held at that moment; in a
\* second run every URL the first run left in that table is in existing_urls, is not
\* collected from a listing page again and its article page is not requested again.
C11_SnapshotClaim ==
  /\ pc # "start" => existing_urls = UrlsOf(TableAtLoad)
  /\ (run = 2 /\ pc # "start") =>
       \A u \in PersistedByRun1 :
         /\ u \in existing_urls
         /\ u \notin Range(all_articles)
         /\ FetchesOf(u) = {}

\* the part of C11 about a later run alone: a URL the first run persisted is in the
\* existing_urls of the second run
C11_PersistedIsExisting ==
  (run = 2 /\ pc # "start") => PersistedByRun1 \subseteq existing_urls

\* the part of C11 about a later run alone: a URL the first run persisted is not a
\* candidate of the second run
C11_PersistedNotCandidate ==
  run = 2 => \A u \in PersistedByRun1 : u \notin Range(all_articles) /\ FetchesOf(u) = {}

(***************************************************************************)
(* The pure functions on their own: date normalization, section derivation *)
(***************************************************************************)
\* the date text of the sites: weekday, day de month de year time
DateText(d, m, y, t) == <<"jueves", ",", d, "de", m, "de", y, t>>

WellFormedDates ==
  {[text |-> DateText(d, SpanishMonths[i], "2025", t), label |-> "well_formed",
    expect |-> [y |-> 2025, mo |-> i, d |-> NumTok[d].v, h |-> TimeTok[t].h, mi |-> TimeTok[t].m]] :
     d \in {"5", "12", "25"}, i \in DOMAIN SpanishMonths, t \in {"14:30", "9:05"}}

GarbledTexts ==
  {<<>>, GarbledDate,
   DateText("12", "junnio", "2025", "14:30"),
   DateText("99", "junio", "2025", "14:30"),
   DateText("31", "junio", "2025", "14:30"),
   DateText("12", "junio", "25", "14:30"),
   DateText("12", "junio", "2025", "25:61"),
   <<"jueves", ",", "12", "de", "junio">>,
   <<"jueves", ",", "junio", "12", "2025", "14:30">>,
   <<"12", "junio">>}

GarbledDates == {[text |-> x, label |-> "garbled", expect |-> Null] : x \in GarbledTexts}

\* every sequence of at most n path segments
RECURSIVE Paths(_)
Paths(n) ==
  IF n = 0 THEN {<<>>}
  ELSE Paths(n - 1) \cup {Append(q, x) : q \in {q \in Paths(n - 1) : Len(q) = n - 1}, x \in Segments}

DateProbes ==
  {[fn |-> "date", src |-> src, text |-> i.text, label |-> i.label, expect |-> i.expect,
    done |-> FALSE, out |-> Null] : src \in Sources, i \in WellFormedDates \cup GarbledDates}

SectionProbes ==
  {[fn |-> "section", src |-> src, path |-> q, slash |-> b, url |-> UrlString(q, b),
    done |-> FALSE, out |-> None] : src \in Sources, q \in Paths(MaxSegs), b \in BOOLEAN}

\* the published timestamp a script derives from a raw date text: the "datetime" column of
\* scraper.py, the "date" and "time" columns of scraper_anf.py
normalize_date(src, text) ==
  IF src = "ed" THEN ed_datetime(text)
  ELSE [date |-> anf_date(text), time |-> anf_time(text)]

InitFn ==
  /\ source = "ed" /\ unchanged = FALSE
  /\ remote_list = [s \in DOMAIN sections(source) |-> [p \in 1..PageBudget(source) |-> Unknown]]
  /\ remote_art = [u \in Urls |-> Unknown]
  /\ db = InitStore({})
  /\ run = 1 /\ pc = "idle"
  /\ existing_urls = {}
  /\ sec = 1 /\ page = 1
  /\ all_articles = <<>> /\ seen_urls = {} /\ candidates = <<>> /\ pos = 1
  /\ full_articles = <<>> /\ rows = <<>> /\ pending = {}
  /\ visited = <<>> /\ hits = [u \in Urls |-> 0] /\ fetched = <<>> /\ outcomes = <<>>
  /\ snap = InitStore({}) /\ ended1 = "none"
  /\ probe \in DateProbes \cup SectionProbes

PipelineVars == <<source, unchanged, remote_list, remote_art, db, run, pc, existing_urls,
                  sec, page, all_articles, seen_urls, candidates, pos, full_articles, rows,
                  pending, visited, hits, fetched, outcomes, snap, ended1>>

\* scraper.py lines 207-209 / scraper_anf.py lines 218-237 on one date text
NormalizeDate ==
  /\ probe.fn = "date" /\ ~probe.done
  /\ probe' = [probe EXCEPT !.done = TRUE, !.out = normalize_date(probe.src, probe.text)]
  /\ UNCHANGED PipelineVars

\* extract_section on one URL
ExtractSection ==
  /\ probe.fn = "section" /\ ~probe.done
  /\ probe' = [probe EXCEPT !.done = TRUE, !.out = extract_section(probe.src, probe.url)]
  /\ UNCHANGED PipelineVars

NextFn == NormalizeDate \/ ExtractSection

SpecFn == InitFn /\ [][NextFn]_vars

\* the timestamp of a normalized date, null when a part of it is null
Timestamp(src, out) ==
  IF src = "ed" THEN out
  ELSE IF out.date = Null \/ out.time = Null THEN Null
  ELSE [y |-> out.date.y, mo |-> out.date.mo, d |-> out.date.d, h |-> out.time.h, mi |-> out.time.mi]

\* C7 as stated: in both scripts a well-formed date text normalizes to the timestamp it
\* names, for every month of the table, and a garbled or empty text normalizes to null.
C7_DateParsingClaim ==
  (probe.fn = "date" /\ probe.done) => Timestamp(probe.src, probe.out) = probe.expect

\* the pieces of the URL after the host, as str.split("/") sees them
Pieces(q, slash) == q \o (IF slash THEN <<"">> ELSE <<>>)

\* C8 as stated, for both scripts: a non-empty path gives its first segment (scraper.py)
\* or its segments before the last one (scraper_anf.py, paths of two segments or more);
\* an empty path gives "unknown".
C8_SectionClaim ==
  (probe.fn = "section" /\ probe.done) =>
    IF probe.path = <<>> THEN probe.out = Some(<<"unknown">>)
    ELSE /\ probe.src = "ed" => probe.out = Some(<<probe.path[1]>>)
         /\ (probe.src = "anf" /\ Len(probe.path) >= 2 /\ ~probe.slash) =>
              probe.out = Some(SubSeq(probe.path, 1, Len(probe.path) - 1))

\* C8 amended: scraper.py gives the lower-cased first path segment, and "unknown" for an
\* empty path; scraper_anf.py gives the pieces before the last one, and None (not
\* "unknown") when fewer than two pieces follow the host, the empty path included.
C8_Section ==
  (probe.fn = "section" /\ probe.done) =>
    /\ probe.src = "ed" =>
         probe.out = IF probe.path = <<>> THEN Some(<<"unknown">>)
                     ELSE Some(<<lower(probe.path[1])>>)
    /\ probe.src = "anf" =>
         LET pieces == Pieces(probe.path, probe.slash) IN
         probe.out = IF Len(pieces) < 2 THEN None
                     ELSE Some(SubSeq(pieces, 1, Len(pieces) - 1))

\* scraper_anf.py derived the section of a URL with an empty path
C8_Witness ==
  /\ probe.fn = "section" /\ probe.done
  /\ probe.src = "anf" /\ probe.path = <<>> /\ probe.out = None

====
